---- MODULE Spec2Model ----
(***************************************************************************)
(* RequestHandler of the distributed runtime                               *)
(* (src/lib/distributed_runtime/request_handler.cc): the FunctionCache     *)
(* (Register / Prepare under cached_bef_mutex_), HandleRemoteRegister and  *)
(* HandleRemoteExecute with its RunWhenReady continuation.                 *)
(*                                                                         *)
(* Two specifications are given.  SpecCache runs the Register calls step   *)
(* by step on concurrent threads against Prepare.  Spec follows one        *)
(* HandleRemoteExecute request from entry to its callback, while           *)
(* HandleRemoteRegister calls (each taken as a whole: all a call shares    *)
(* with the request is written under the mutex) replace cache entries      *)
(* around it, other requests set values in the remote object store and the *)
(* results of the invoked function become ready.                           *)
(***************************************************************************)
EXTENDS Integers, Sequences, FiniteSets, TLC

\* ------------------------------------------------------------------ bounds
\* Number of HandleRemoteRegister calls; call r opens BEFFile object r.
MaxRegister == 2
\* Longest request.inputs.
MaxInputs == 1
\* Longest request.outputs.
MaxOutputs == 2

\* ------------------------------------------------------------- vocabulary
Names == {"p", "q"}
Devices == {"cpu", "gone"}
LocalIds == 1..MaxOutputs
RegIds == 1..MaxRegister

NoFile == 0
NoBuffer == 0
Free == 0

DistContextType == "!dist.dist_context"
TensorType == "!t.tensor"
OtherType == "i32"
TypeNames == {DistContextType, TensorType, OtherType}

\* The devices the device manager of the host knows.
KnownDevices == {"cpu"}

\* GetDeviceRef<Device>(name): the device, or a null reference.
GetDeviceRef(device) == IF device \in KnownDevices THEN device ELSE "null"

\* A remote object id: prefix_id, local_id and device.
RemoteObjectIds == [prefix_id : {0}, local_id : LocalIds, device : Devices]

\* ---------------------------------------------------------------- programs
\* A function of a BEF file: its name and its declared types.
Fn(name, args, res) == [name |-> name, argument_types |-> args, result_types |-> res]

\* The MLIR programs a register request may carry, described by what the
\* compiler and the BEF loader make of them.  ProgB has no function "q".
ProgA ==
  [compiles |-> TRUE, parses |-> TRUE,
   functions |-> {Fn("p", <<DistContextType, TensorType>>, <<TensorType, OtherType>>),
                  Fn("q", <<>>, <<>>)}]
ProgB ==
  [compiles |-> TRUE, parses |-> TRUE,
   functions |-> {Fn("p", <<TensorType>>, <<TensorType, TensorType>>)}]
Uncompilable == [compiles |-> FALSE, parses |-> FALSE, functions |-> {}]
Unparsable == [compiles |-> TRUE, parses |-> FALSE, functions |-> {}]
Programs == {ProgA, ProgB, Uncompilable, Unparsable}

\* ConvertMLIRSrcToBEF: the BEF buffer of a program, empty when it does not compile.
ConvertMLIRSrcToBEF(program) ==
  IF program.compiles
    THEN [empty |-> FALSE, parses |-> program.parses, functions |-> program.functions]
    ELSE [empty |-> TRUE, parses |-> FALSE, functions |-> {}]

\* BEFFile::Open yields a file (TRUE) or a null reference (FALSE).
BEFFileOpens(buffer) == ~buffer.empty /\ buffer.parses

NoRequest == [program_name |-> "", program |-> Uncompilable, after |-> {}]
NotCompleted == [program_name |-> "", ok |-> FALSE, after |-> {}]
NoLookup == [program_name |-> "", bef_file |-> NoFile, parsing |-> {}]

VARIABLES
  cached_bef_,        \* the map of the cache: program name -> CachedBEF
  cached_bef_mutex_,  \* Free, or the Register call holding the mutex
  files,              \* BEFFile object r: state, reference count, functions
  buffers,            \* BEF buffer of call r: "none", "live" or "freed"
  regpc,              \* position of Register call r
  regreq,             \* the request of call r while it runs
  completed,          \* history: name and outcome of call r once returned,
                      \* and the calls that had returned when it began
  lookup,             \* name and result of the latest Prepare of SpecCache,
                      \* and the calls that were parsing when it returned
  store,              \* the remote object store: id -> value reference
  pc,                 \* position of the execute request
  request,            \* the RemoteExecuteInvocation
  response,           \* the RemoteExecuteInvocationResult being built
  bef_file,           \* local RCReference<BEFFile> of HandleRemoteExecute
  fn,                 \* const Function* fn: the file owning it, and what it
                      \* pointed to when it was obtained
  arguments,          \* the argument values collected so far
  results,            \* the result values: "pending" or "ready"
  i,                  \* loop index (1-based)
  inline,             \* the continuation runs inside RunWhenReady
  delivered,          \* history: the responses done was invoked with
  invoked,            \* history: fn->Execute was called
  published           \* history: the output indices set in the store

cacheVars == <<cached_bef_, cached_bef_mutex_, files, buffers>>
regVars == <<regpc, regreq, completed, lookup>>
execVars == <<store, pc, request, response, bef_file, fn, arguments, results, i,
              inline, delivered, invoked, published>>
vars == <<cacheVars, regVars, execVars>>

\* ------------------------------------------------------ reference counting
\* RCReference::CopyRef: one more holder of file f.
CopyRef(fs, f) ==
  IF f = NoFile THEN fs ELSE [fs EXCEPT ![f].refs = @ + 1]

\* An RCReference to f goes away; the last one destroys the file and with it
\* the Function objects it owns.
DropRef(fs, f) ==
  IF f = NoFile THEN fs
  ELSE IF fs[f].refs = 1
    THEN [fs EXCEPT ![f] = [state |-> "destroyed", refs |-> 0, functions |-> {}]]
    ELSE [fs EXCEPT ![f].refs = @ - 1]

\* A BEF buffer is destroyed.
FreeBuffer(bs, b) == IF b = NoBuffer THEN bs ELSE [bs EXCEPT ![b] = "freed"]

\* ------------------------------------------------------------ FunctionCache
DefaultCachedBEF == [bef_file |-> NoFile, bef_buffer |-> NoBuffer]

\* A faulty variant of Subscript: touching a key forgets every other key.
SubscriptClobber(cache, name) ==
  [n \in {name} |-> IF name \in DOMAIN cache THEN cache[name] ELSE DefaultCachedBEF]

\* cached_bef_[name]: operator[] of the map, which inserts a default entry
\* for a missing key.
Subscript(cache, name) ==
  IF name \in DOMAIN cache THEN cache
  ELSE [n \in DOMAIN cache \cup {name} |->
          IF n = name THEN DefaultCachedBEF ELSE cache[n]]

\* The entry read through operator[].
EntryOf(cache, name) == Subscript(cache, name)[name]

\* A faulty variant of AssignFile: an entry already under the name is kept (emplace).
AssignFileIfAbsent(cache, name, f) ==
  IF name \in DOMAIN cache THEN cache
  ELSE [n \in DOMAIN cache \cup {name} |->
          IF n = name THEN [bef_file |-> f, bef_buffer |-> NoBuffer] ELSE cache[n]]

\* Line 79: cached_bef_[program_name].bef_file = bef_file.CopyRef()
AssignFile(cache, name, f) ==
  [Subscript(cache, name) EXCEPT ![name].bef_file = f]

\* A faulty variant of AssignBuffer: a buffer already in the entry is kept.
AssignBufferIfAbsent(cache, name, b) ==
  IF EntryOf(cache, name).bef_buffer # NoBuffer THEN Subscript(cache, name)
  ELSE [Subscript(cache, name) EXCEPT ![name].bef_buffer = b]

\* Line 80: cached_bef_[program_name].bef_buffer = std::move(bef_buffer)
AssignBuffer(cache, name, b) ==
  [Subscript(cache, name) EXCEPT ![name].bef_buffer = b]

\* A faulty variant of Prepare: the null reference on both paths.
PrepareNull(cache, name) == NoFile

\* FunctionCache::Prepare: a reference to the file cached under the name, or
\* a null reference.
Prepare(cache, name) ==
  IF name \in DOMAIN cache THEN cache[name].bef_file ELSE NoFile

\* The calls that have returned.
Returned == {r \in RegIds : regpc[r] = "done"}

\* ------------------------------------------- Register, one step at a time
\* HandleRemoteRegister is called with a program name and a program.
CallRegister(r, name, program) ==
  /\ regpc[r] = "idle"
  /\ \A q \in RegIds : q < r => regpc[q] # "idle"
  /\ regpc' = [regpc EXCEPT ![r] = "convert"]
  /\ regreq' = [regreq EXCEPT ![r] =
       [program_name |-> name, program |-> program, after |-> Returned]]
  /\ UNCHANGED <<cacheVars, completed, lookup, execVars>>

\* The call returns: the request is gone, the history keeps its outcome.
Return(r, ok) ==
  /\ regpc' = [regpc EXCEPT ![r] = "done"]
  /\ regreq' = [regreq EXCEPT ![r] = NoRequest]
  /\ completed' = [completed EXCEPT ![r] =
       [program_name |-> regreq[r].program_name, ok |-> ok, after |-> regreq[r].after]]

\* A faulty variant of Convert: the mutex is taken before the file is opened.
ConvertLocksFirst(r) ==
  /\ regpc[r] = "convert"
  /\ IF ConvertMLIRSrcToBEF(regreq[r].program).empty
       THEN /\ Return(r, FALSE)
            /\ UNCHANGED <<buffers, cached_bef_mutex_>>
       ELSE /\ cached_bef_mutex_ = Free
            /\ cached_bef_mutex_' = r
            /\ regpc' = [regpc EXCEPT ![r] = "open"]
            /\ buffers' = [buffers EXCEPT ![r] = "live"]
            /\ UNCHANGED <<regreq, completed>>
  /\ UNCHANGED <<cached_bef_, files, lookup, execVars>>

\* Lines 102-110: compile; an empty buffer ends the call.
Convert(r) ==
  /\ regpc[r] = "convert"
  /\ IF ConvertMLIRSrcToBEF(regreq[r].program).empty
       THEN /\ Return(r, FALSE)
            /\ UNCHANGED buffers
       ELSE /\ regpc' = [regpc EXCEPT ![r] = "open"]
            /\ buffers' = [buffers EXCEPT ![r] = "live"]
            /\ UNCHANGED <<regreq, completed>>
  /\ UNCHANGED <<cached_bef_, cached_bef_mutex_, files, lookup, execVars>>

\* A faulty variant of Open: the entry is created through operator[] before
\* the file is tested.
OpenInsertsFirst(r) ==
  /\ regpc[r] = "open"
  /\ cached_bef_' = Subscript(cached_bef_, regreq[r].program_name)
  /\ IF BEFFileOpens(ConvertMLIRSrcToBEF(regreq[r].program))
       THEN /\ files' = [files EXCEPT ![r] =
                 [state |-> "live", refs |-> 1,
                  functions |-> ConvertMLIRSrcToBEF(regreq[r].program).functions]]
            /\ regpc' = [regpc EXCEPT ![r] = "lock"]
            /\ UNCHANGED <<buffers, regreq, completed>>
       ELSE /\ buffers' = FreeBuffer(buffers, r)
            /\ Return(r, FALSE)
            /\ UNCHANGED files
  /\ UNCHANGED <<cached_bef_mutex_, lookup, execVars>>

\* Lines 69-77: BEFFile::Open outside the mutex; a null file ends the call.
Open(r) ==
  /\ regpc[r] = "open"
  /\ IF BEFFileOpens(ConvertMLIRSrcToBEF(regreq[r].program))
       THEN /\ files' = [files EXCEPT ![r] =
                 [state |-> "live", refs |-> 1,
                  functions |-> ConvertMLIRSrcToBEF(regreq[r].program).functions]]
            /\ regpc' = [regpc EXCEPT ![r] = "lock"]
            /\ UNCHANGED <<buffers, regreq, completed>>
       ELSE /\ buffers' = FreeBuffer(buffers, r)
            /\ Return(r, FALSE)
            /\ UNCHANGED files
  /\ UNCHANGED <<cached_bef_, cached_bef_mutex_, lookup, execVars>>

\* Lines 78-79: take the mutex and store the file reference; the reference
\* the entry held before is released.
StoreFile(r) ==
  /\ regpc[r] = "lock"
  /\ cached_bef_mutex_ = Free
  /\ cached_bef_mutex_' = r
  /\ cached_bef_' = AssignFile(cached_bef_, regreq[r].program_name, r)
  /\ files' = DropRef(CopyRef(files, r),
                      EntryOf(cached_bef_, regreq[r].program_name).bef_file)
  /\ regpc' = [regpc EXCEPT ![r] = "store_buffer"]
  /\ UNCHANGED <<buffers, regreq, completed, lookup, execVars>>

\* Lines 80-81: move the buffer into the entry (the buffer it held is
\* destroyed), release the mutex, drop the local file reference, return.
StoreBuffer(r) ==
  /\ regpc[r] = "store_buffer"
  /\ cached_bef_mutex_ = r
  /\ cached_bef_' = AssignBuffer(cached_bef_, regreq[r].program_name, r)
  /\ buffers' = FreeBuffer(buffers,
                           EntryOf(cached_bef_, regreq[r].program_name).bef_buffer)
  /\ cached_bef_mutex_' = Free
  /\ files' = DropRef(files, r)
  /\ Return(r, TRUE)
  /\ UNCHANGED <<lookup, execVars>>

\* A thread calls Prepare: lookup under the mutex.  The reference returned
\* is a temporary of the caller, so the counts are as before once it is gone.
CallPrepare(name) ==
  /\ cached_bef_mutex_ = Free
  /\ lookup' = [program_name |-> name, bef_file |-> Prepare(cached_bef_, name),
                parsing |-> {r \in RegIds : regpc[r] = "open"}]
  /\ UNCHANGED <<cacheVars, regpc, regreq, completed, execVars>>

\* ------------------------------------------ HandleRemoteRegister as a whole
\* Lines 100-111 with Register (lines 67-81) in one step: compile, open,
\* and under the mutex store the file and the buffer.  A call that fails
\* (lines 104-109, 73-77) returns having touched nothing that is shared: the
\* buffer it made is gone with it.
HandleRemoteRegister(r, name, program) ==
  /\ regpc[r] = "idle"
  /\ \A q \in RegIds : q < r => regpc[q] = "done"
  /\ cached_bef_mutex_ = Free
  /\ LET buffer == ConvertMLIRSrcToBEF(program)
         opened == [files EXCEPT ![r] =
                      [state |-> "live", refs |-> 1, functions |-> buffer.functions]]
         old == EntryOf(cached_bef_, name)
     IN IF buffer.empty \/ ~BEFFileOpens(buffer)
          THEN UNCHANGED <<cacheVars, regpc, completed>>
          ELSE /\ cached_bef_' = AssignBuffer(AssignFile(cached_bef_, name, r), name, r)
               /\ files' = DropRef(DropRef(CopyRef(opened, r), old.bef_file), r)
               /\ buffers' = FreeBuffer([buffers EXCEPT ![r] = "live"], old.bef_buffer)
               /\ UNCHANGED cached_bef_mutex_
               /\ completed' = [completed EXCEPT ![r] =
                    [program_name |-> name, ok |-> TRUE, after |-> Returned]]
               /\ regpc' = [regpc EXCEPT ![r] = "done"]
  /\ UNCHANGED <<regreq, lookup, execVars>>

\* ----------------------------------------------------- the execute request
SeqsUpTo(S, n) == UNION {[1..k -> S] : k \in 0..n}

\* The ids of the inputs, and the outputs: output k carries local id k.
InputIds == {id \in RemoteObjectIds : id.local_id = 1}
Outputs == [id : RemoteObjectIds, need_metadata : BOOLEAN]
OutputSeqs ==
  {s \in SeqsUpTo(Outputs, MaxOutputs) : \A k \in 1..Len(s) : s[k].id.local_id = k}
Requests ==
  [program_name : Names, entry_function : Names,
   inputs : SeqsUpTo(InputIds, MaxInputs), outputs : OutputSeqs]

NoExecute ==
  [program_name |-> "", entry_function |-> "", inputs |-> <<>>, outputs |-> <<>>]

\* Value references: the dispatcher's context, result k of the invoked
\* function, a value set by another request, and the empty reference.
DistCtxValue == [kind |-> "dist_ctx", index |-> 0]
ResultValue(k) == [kind |-> "result", index |-> k]
PeerValue == [kind |-> "peer", index |-> 0]
AbsentValue == [kind |-> "absent", index |-> 0]

\* The remote object store: get yields the value set under the id, or the
\* empty reference; set records the value under the id.
GetRemoteObject(st, id) == IF id \in DOMAIN st THEN st[id] ELSE AbsentValue
SetRemoteObject(st, id, value) ==
  [k \in DOMAIN st \cup {id} |-> IF k = id THEN value ELSE st[k]]

\* RemoteObjectId(id.prefix_id, id.local_id, device.CopyRef())
QualifiedId(id, device) ==
  [prefix_id |-> id.prefix_id, local_id |-> id.local_id, device |-> device]

\* make_unique<RemoteExecuteInvocationResult>() with ok = false (lines 115-116),
\* and the pointer once it was moved into done.
NewResponse == [ok |-> FALSE, metadata |-> <<>>, moved |-> FALSE]
MovedResponse == [ok |-> FALSE, metadata |-> <<>>, moved |-> TRUE]

NullFn == [file |-> NoFile, decl |-> Fn("", <<>>, <<>>)]

\* BEFFile::GetFunction(name): the function of that name, or null.
GetFunction(fs, f, name) ==
  LET named == {g \in fs[f].functions : g.name = name}
  IN IF named = {} THEN NullFn ELSE [file |-> f, decl |-> CHOOSE g \in named : TRUE]

\* Lines 154-160: one when the first declared argument is the distributed context.
NumDistContextArgs(decl) ==
  IF Len(decl.argument_types) > 0 /\ decl.argument_types[1] = DistContextType
    THEN 1 ELSE 0

\* A faulty variant of ResultSizeMismatch: only too few declared results count.
ResultSizeTooSmall(decl, req) == Len(decl.result_types) < Len(req.outputs)

\* Line 134: the declared result count differs from the outputs requested.
ResultSizeMismatch(decl, req) == Len(decl.result_types) # Len(req.outputs)

\* A faulty variant of ArgumentSizeMismatch: only too few declared arguments count.
ArgumentSizeTooSmall(decl, req) ==
  Len(decl.argument_types) < NumDistContextArgs(decl) + Len(req.inputs)

\* Lines 161-162: the declared argument count differs from context plus inputs.
ArgumentSizeMismatch(decl, req) ==
  Len(decl.argument_types) # NumDistContextArgs(decl) + Len(req.inputs)

\* fn->result_types()[k].GetName() as the continuation reads it: the declared
\* type while the file owning the function lives; once the file is destroyed
\* the pointer dangles and the read may give any type name.
ResultTypeRead(fs, g, k) ==
  IF fs[g.file].state = "live" THEN {g.decl.result_types[k]} ELSE TypeNames

\* SerializeTensorMetadata of result k.
SerializeTensorMetadata(k) == <<"metadata", k>>

\* A faulty variant of PushMetadata: the entry is put in front.
PushMetadataFront(metadata, k) == <<SerializeTensorMetadata(k)>> \o metadata

\* Lines 210-212: serialize result k and push it onto response->metadata.
PushMetadata(metadata, k) == Append(metadata, SerializeTensorMetadata(k))

\* A faulty variant of SetOutput: the set is left out.
SetOutputSkip(st, id, k) == st

\* Line 197: manager->SetRemoteObject(output_id, (*results)[k].CopyRef())
SetOutput(st, id, k) == SetRemoteObject(st, id, ResultValue(k))

\* done(std::move(response))
Done ==
  /\ delivered' = Append(delivered, [ok |-> response.ok, metadata |-> response.metadata])
  /\ response' = MovedResponse

\* HandleRemoteExecute returns: its local bef_file reference goes away.
ReturnFromHandler ==
  /\ files' = DropRef(files, bef_file)
  /\ bef_file' = NoFile

\* Another request of the host sets a value under an input id that has none.
PeerPublish(id) ==
  /\ GetDeviceRef(id.device) # "null"
  /\ QualifiedId(id, GetDeviceRef(id.device)) \notin DOMAIN store
  /\ store' = SetRemoteObject(store, QualifiedId(id, GetDeviceRef(id.device)), PeerValue)
  /\ UNCHANGED <<cacheVars, regVars, pc, request, response, bef_file, fn, arguments,
                 results, i, inline, delivered, invoked, published>>

\* Lines 113-125: the request arrives; Prepare under the mutex; an unknown
\* program ends the request with done.
HandleRemoteExecute ==
  /\ pc = "idle"
  /\ cached_bef_mutex_ = Free
  /\ \E req \in Requests :
       /\ request' = req
       /\ LET f == Prepare(cached_bef_, req.program_name)
          IN IF f = NoFile
               THEN /\ delivered' = Append(delivered, [ok |-> FALSE, metadata |-> <<>>])
                    /\ response' = MovedResponse
                    /\ pc' = "returned"
                    /\ UNCHANGED <<files, bef_file>>
               ELSE /\ response' = NewResponse
                    /\ bef_file' = f
                    /\ files' = CopyRef(files, f)
                    /\ pc' = "get_function"
                    /\ UNCHANGED delivered
  /\ UNCHANGED <<cached_bef_, cached_bef_mutex_, buffers, regVars, store, fn, arguments,
                 results, i, inline, invoked, published>>

\* Lines 126-167: GetFunction(request.program_name), the result count, the
\* context argument and the argument count.
ResolveFunction ==
  /\ pc = "get_function"
  /\ LET g == GetFunction(files, bef_file, request.program_name)
     IN IF g = NullFn \/ ResultSizeMismatch(g.decl, request)
          THEN /\ Done
               /\ ReturnFromHandler
               /\ pc' = "returned"
               /\ fn' = g
               /\ UNCHANGED <<arguments, i>>
          ELSE IF ArgumentSizeMismatch(g.decl, request)
            THEN /\ ReturnFromHandler
                 /\ pc' = "returned"
                 /\ fn' = g
                 /\ arguments' = IF NumDistContextArgs(g.decl) = 1
                                   THEN <<DistCtxValue>> ELSE <<>>
                 /\ UNCHANGED <<response, delivered, i>>
            ELSE /\ fn' = g
                 /\ arguments' = IF NumDistContextArgs(g.decl) = 1
                                   THEN <<DistCtxValue>> ELSE <<>>
                 /\ pc' = "inputs"
                 /\ i' = 1
                 /\ UNCHANGED <<response, delivered, files, bef_file>>
  /\ UNCHANGED <<cached_bef_, cached_bef_mutex_, buffers, regVars, store, request,
                 results, inline, invoked, published>>

\* Lines 168-182, one iteration: the device of input i, then its value.
ResolveInput ==
  /\ pc = "inputs"
  /\ i <= Len(request.inputs)
  /\ LET id == request.inputs[i]
         device == GetDeviceRef(id.device)
     IN IF device = "null"
          THEN /\ Done
               /\ ReturnFromHandler
               /\ pc' = "returned"
               /\ UNCHANGED <<arguments, i>>
          ELSE /\ arguments' = Append(arguments, GetRemoteObject(store, QualifiedId(id, device)))
               /\ i' = i + 1
               /\ UNCHANGED <<response, delivered, files, bef_file, pc>>
  /\ UNCHANGED <<cached_bef_, cached_bef_mutex_, buffers, regVars, store, request, fn,
                 results, inline, invoked, published>>

\* Lines 183-186: the results are allocated and the function is invoked; it
\* returns with its results pending.
Execute ==
  /\ pc = "inputs"
  /\ i > Len(request.inputs)
  /\ results' = [k \in 1..Len(fn.decl.result_types) |-> "pending"]
  /\ invoked' = TRUE
  /\ pc' = "publish"
  /\ i' = 1
  /\ UNCHANGED <<cacheVars, regVars, store, request, response, bef_file, fn, arguments,
                 inline, delivered, published>>

\* Lines 187-198, one iteration: the device of output i, then the set.
PublishOutput ==
  /\ pc = "publish"
  /\ i <= Len(request.outputs)
  /\ LET id == request.outputs[i].id
         device == GetDeviceRef(id.device)
     IN IF device = "null"
          THEN /\ Done
               /\ ReturnFromHandler
               /\ pc' = "returned"
               /\ UNCHANGED <<store, published, i>>
          ELSE /\ store' = SetOutput(store, QualifiedId(id, device), i)
               /\ published' = Append(published, i)
               /\ i' = i + 1
               /\ UNCHANGED <<response, delivered, files, bef_file, pc>>
  /\ UNCHANGED <<cached_bef_, cached_bef_mutex_, buffers, regVars, request, fn, arguments,
                 results, inline, invoked>>

\* RunWhenReady's condition: every result value is available.
AllReady == \A k \in DOMAIN results : results[k] = "ready"

\* A faulty variant of RunWhenReady: the handler calls the continuation itself
\* instead of handing it to RunWhenReady.
RunContinuationNow ==
  /\ pc = "publish"
  /\ i > Len(request.outputs)
  /\ pc' = "continuation"
  /\ inline' = TRUE
  /\ i' = 1
  /\ UNCHANGED <<cacheVars, regVars, store, request, response, bef_file, fn, arguments,
                 results, delivered, invoked, published>>

\* Lines 200-205 and 223: RunWhenReady.  With every result ready the
\* continuation starts inside the call; otherwise it is registered and
\* HandleRemoteExecute returns.
RunWhenReady ==
  /\ pc = "publish"
  /\ i > Len(request.outputs)
  /\ IF AllReady
       THEN /\ pc' = "continuation"
            /\ inline' = TRUE
            /\ i' = 1
            /\ UNCHANGED <<files, bef_file>>
       ELSE /\ pc' = "waiting"
            /\ ReturnFromHandler
            /\ UNCHANGED <<inline, i>>
  /\ UNCHANGED <<cached_bef_, cached_bef_mutex_, buffers, regVars, store, request, response,
                 fn, arguments, results, delivered, invoked, published>>

\* The invoked function makes result k ready.
ResultReady(k) ==
  /\ pc \in {"publish", "waiting"}
  /\ k \in DOMAIN results
  /\ results[k] = "pending"
  /\ results' = [results EXCEPT ![k] = "ready"]
  /\ UNCHANGED <<cacheVars, regVars, store, pc, request, response, bef_file, fn, arguments,
                 i, inline, delivered, invoked, published>>

\* The last result became ready: the registered continuation starts.
ContinuationFires ==
  /\ pc = "waiting"
  /\ AllReady
  /\ pc' = "continuation"
  /\ i' = 1
  /\ UNCHANGED <<cacheVars, regVars, store, request, response, bef_file, fn, arguments,
                 results, inline, delivered, invoked, published>>

\* The continuation ends; when it ran inside RunWhenReady the handler returns.
ContinuationEnds ==
  /\ pc' = "finished"
  /\ ReturnFromHandler

\* A faulty variant of ContinuationStep: after done for a result that is no
\* tensor the loop goes on instead of returning.
ContinuationStepNoReturn ==
  /\ pc = "continuation"
  /\ i <= Len(request.outputs)
  /\ i' = i + 1
  /\ IF request.outputs[i].need_metadata
       THEN \E type \in ResultTypeRead(files, fn, i) :
              IF type = TensorType
                THEN /\ response' = [response EXCEPT !.metadata = PushMetadata(@, i)]
                     /\ UNCHANGED delivered
                ELSE Done
       ELSE UNCHANGED <<response, delivered>>
  /\ UNCHANGED <<cacheVars, regVars, store, pc, request, bef_file, fn, arguments, results,
                 inline, invoked, published>>

\* Lines 206-219, one iteration of the continuation's loop.
ContinuationStep ==
  /\ pc = "continuation"
  /\ i <= Len(request.outputs)
  /\ IF request.outputs[i].need_metadata
       THEN \E type \in ResultTypeRead(files, fn, i) :
              IF type = TensorType
                THEN /\ response' = [response EXCEPT !.metadata = PushMetadata(@, i)]
                     /\ i' = i + 1
                     /\ UNCHANGED <<delivered, pc, files, bef_file>>
                ELSE /\ Done
                     /\ ContinuationEnds
                     /\ UNCHANGED i
       ELSE /\ i' = i + 1
            /\ UNCHANGED <<response, delivered, pc, files, bef_file>>
  /\ UNCHANGED <<cached_bef_, cached_bef_mutex_, buffers, regVars, store, request, fn,
                 arguments, results, inline, invoked, published>>

\* Lines 220-221: ok = true and done.
ContinuationDone ==
  /\ pc = "continuation"
  /\ i > Len(request.outputs)
  /\ delivered' = Append(delivered, [ok |-> TRUE, metadata |-> response.metadata])
  /\ response' = MovedResponse
  /\ ContinuationEnds
  /\ UNCHANGED <<cached_bef_, cached_bef_mutex_, buffers, regVars, store, request, fn,
                 arguments, results, i, inline, invoked, published>>

\* ------------------------------------------------------- the specifications
Init ==
  /\ cached_bef_ = <<>>
  /\ cached_bef_mutex_ = Free
  /\ files = [r \in RegIds |-> [state |-> "unopened", refs |-> 0, functions |-> {}]]
  /\ buffers = [r \in RegIds |-> "none"]
  /\ regpc = [r \in RegIds |-> "idle"]
  /\ regreq = [r \in RegIds |-> NoRequest]
  /\ completed = [r \in RegIds |-> NotCompleted]
  /\ lookup = NoLookup
  /\ store = <<>>
  /\ pc = "idle"
  /\ request = NoExecute
  /\ response = MovedResponse
  /\ bef_file = NoFile
  /\ fn = NullFn
  /\ arguments = <<>>
  /\ results = <<>>
  /\ i = 0
  /\ inline = FALSE
  /\ delivered = <<>>
  /\ invoked = FALSE
  /\ published = <<>>

Next ==
  \/ \E r \in RegIds, name \in Names, program \in Programs :
       HandleRemoteRegister(r, name, program)
  \/ HandleRemoteExecute
  \/ \E id \in InputIds : PeerPublish(id)
  \/ ResolveFunction
  \/ ResolveInput
  \/ Execute
  \/ PublishOutput
  \/ RunWhenReady
  \/ \E k \in 1..MaxOutputs : ResultReady(k)
  \/ ContinuationFires
  \/ ContinuationStep
  \/ ContinuationDone

Spec == Init /\ [][Next]_vars

NextCache ==
  \/ \E r \in RegIds, name \in Names, program \in Programs : CallRegister(r, name, program)
  \/ \E r \in RegIds : Convert(r)
  \/ \E r \in RegIds : Open(r)
  \/ \E r \in RegIds : StoreFile(r)
  \/ \E r \in RegIds : StoreBuffer(r)
  \/ \E name \in Names : CallPrepare(name)

SpecCache == Init /\ [][NextCache]_vars
\* ------------------------------------------------------------- the claims
\* The request has ended on a path that registers no continuation, or its
\* continuation has run to its end.
Ended == pc \in {"returned", "finished"}

\* C1: for every HandleRemoteExecute request the callback done is invoked
\* exactly once: never twice, and once whenever the handler has ended without
\* leaving a continuation behind or the continuation has run.
C1_DoneExactlyOnce ==
  /\ Len(delivered) <= 1
  /\ Ended => Len(delivered) = 1

\* C2: a response delivered with ok = false carries an empty metadata list.
C2_FailureHasNoMetadata ==
  \A k \in DOMAIN delivered : ~delivered[k].ok => delivered[k].metadata = <<>>

\* The request holds a program from Prepare and done has not been invoked yet.
InFlight ==
  /\ pc \in {"get_function", "inputs", "publish", "waiting", "continuation"}
  /\ delivered = <<>>

\* The file the request obtained from Prepare.
Obtained == IF bef_file # NoFile THEN bef_file ELSE fn.file

\* C3: from Prepare until done is invoked, neither the program the request
\* obtained nor the bytes it was parsed from are released.
C3_ProgramAndBytesKept ==
  InFlight => /\ files[Obtained].state = "live"
              /\ buffers[Obtained] = "live"

\* The indices of the outputs that ask for metadata.
MetadataOutputs == {j \in DOMAIN request.outputs : request.outputs[j].need_metadata}

\* C4: a response delivered with ok = true has exactly one metadata entry for
\* each output with need_metadata, none for the others, in the order of the
\* request's outputs.
C4_MetadataMatchesOutputs ==
  \A k \in DOMAIN delivered :
    delivered[k].ok =>
      /\ Len(delivered[k].metadata) = Cardinality(MetadataOutputs)
      /\ \A j \in MetadataOutputs :
           delivered[k].metadata[Cardinality({h \in MetadataOutputs : h <= j})]
             = SerializeTensorMetadata(j)

\* C4 witness: two outputs of which only the first asks for metadata,
\* answered with ok = true.
C4_Witness ==
  /\ Len(delivered) = 1
  /\ delivered[1].ok
  /\ Len(request.outputs) = 2
  /\ request.outputs[1].need_metadata
  /\ ~request.outputs[2].need_metadata

\* C5: once the continuation has run, done has received ok = true exactly when
\* every output with need_metadata has the tensor type as its declared result
\* type.
C5_OkIffAllTensor ==
  pc = "finished" =>
    /\ Len(delivered) = 1
    /\ delivered[1].ok <=>
         \A j \in MetadataOutputs : fn.decl.result_types[j] = TensorType

\* Some input of the request names a device the device manager cannot resolve.
UnresolvableInput ==
  \E k \in DOMAIN request.inputs : GetDeviceRef(request.inputs[k].device) = "null"

\* C6: a request with an unresolvable input device never invokes the function,
\* never sets an output in the store, and ends with done(ok = false).
C6_UnresolvableInputFails ==
  UnresolvableInput =>
    /\ ~invoked
    /\ published = <<>>
    /\ Ended => Len(delivered) = 1 /\ ~delivered[1].ok

\* The calls of Register for the name that stored a program and returned.
Registered(name) ==
  {r \in RegIds : completed[r].ok /\ completed[r].program_name = name}

\* C7: with the mutex free, Prepare(name) yields a program exactly when some
\* Register of the name whose parse succeeded has returned.
C7_PreparedIffRegistered ==
  cached_bef_mutex_ = Free =>
    \A name \in Names : Prepare(cached_bef_, name) # NoFile <=> Registered(name) # {}

\* C7 witness: a Prepare has returned a program while the other name, for
\* which a registration failed, has none.
C7_Witness ==
  /\ lookup.bef_file # NoFile
  /\ \E r \in RegIds, name \in Names :
       /\ regpc[r] = "done"
       /\ ~completed[r].ok
       /\ completed[r].program_name = name
       /\ Registered(name) = {}
       /\ cached_bef_mutex_ = Free
       /\ Prepare(cached_bef_, name) = NoFile

\* The successful registrations of the name that no later successful
\* registration of the name followed.
Latest(name) ==
  {r \in Registered(name) :
     \A q \in Registered(name) : r \notin completed[q].after}

\* C8: with the mutex free, Prepare(name) yields the program of a
\* registration that none followed: after Register(p, b1) and then
\* Register(p, b2), the program of b2 and never the one of b1.
C8_LastWriteWins ==
  cached_bef_mutex_ = Free =>
    \A name \in Names :
      Latest(name) # {} => Prepare(cached_bef_, name) \in Latest(name)

\* C8 witness: two successful registrations of one name, one after the other,
\* and a Prepare that has returned the program of the second.
C8_Witness ==
  \E r1, r2 \in RegIds :
    /\ completed[r1].ok /\ completed[r2].ok
    /\ completed[r1].program_name = completed[r2].program_name
    /\ r1 \in completed[r2].after
    /\ lookup.program_name = completed[r2].program_name
    /\ lookup.bef_file = r2

\* Two successful registrations that ran concurrently: neither had returned
\* when the other was called.
Concurrent(r1, r2) ==
  /\ r1 # r2
  /\ completed[r1].ok /\ completed[r2].ok
  /\ r1 \notin completed[r2].after
  /\ r2 \notin completed[r1].after

\* C9: after two concurrent successful registrations of two distinct names
\* both names are in the cache.
C9_BothEntriesPresent ==
  \A r1, r2 \in RegIds :
    (Concurrent(r1, r2) /\ completed[r1].program_name # completed[r2].program_name)
      => /\ Prepare(cached_bef_, completed[r1].program_name) # NoFile
         /\ Prepare(cached_bef_, completed[r2].program_name) # NoFile

\* C9 witness: two such registrations have returned.
C9_Witness ==
  \E r1, r2 \in RegIds :
    /\ Concurrent(r1, r2)
    /\ completed[r1].program_name # completed[r2].program_name

\* Output k of the request is in the store, as result k.
OutputSet(k) ==
  LET id == request.outputs[k].id
      key == QualifiedId(id, GetDeviceRef(id.device))
  IN key \in DOMAIN store /\ store[key] = ResultValue(k)

\* C10: the outputs are set in request order, and all of them are set before
\* the continuation is registered, so that they are in the store while the
\* request waits for its results and when the continuation invokes done.
C10_PublishedBeforeContinuation ==
  /\ \A k \in DOMAIN published : published[k] = k
  /\ \A k \in DOMAIN published : OutputSet(k)
  /\ pc \in {"waiting", "continuation", "finished"} =>
       /\ Len(published) = Len(request.outputs)
       /\ \A k \in DOMAIN request.outputs : OutputSet(k)

\* C10 witness: both outputs are in the store while the request waits and no
\* result is ready yet.
C10_Witness ==
  /\ pc = "waiting"
  /\ Len(request.outputs) = 2
  /\ \A k \in DOMAIN request.outputs : OutputSet(k)
  /\ \A k \in DOMAIN results : results[k] = "pending"

\* Some input of the request had no value in the store when it was fetched.
AbsentInput == \E k \in DOMAIN arguments : arguments[k] = AbsentValue

\* C11: when an input id has no published value in the store at resolution
\* time, resolution fails: the function is not invoked and the request ends
\* with done(ok = false).
C11_AbsentInputFails ==
  AbsentInput =>
    /\ ~invoked
    /\ Ended => Len(delivered) = 1 /\ ~delivered[1].ok

\* The program of Register call r, during a step of the call.
ProgramOf(r) == IF regpc[r] = "idle" THEN regreq'[r].program ELSE regreq[r].program

\* The registration of the program fails: the compiler returns no bytes or
\* the bytes do not parse.
FailsToRegister(program) == ~BEFFileOpens(ConvertMLIRSrcToBEF(program))

\* C12: a registration that fails, at the compiler or at the parse, leaves
\* the program cache as it was: no step of such a call creates, removes or
\* changes an entry, a cached program or the bytes of another call.
C12_FailedRegisterKeepsCache ==
  [][\A r \in RegIds :
       (regpc'[r] # regpc[r] /\ FailsToRegister(ProgramOf(r)))
         => /\ cached_bef_' = cached_bef_
            /\ files' = files
            /\ \A b \in RegIds \ {r} : buffers'[b] = buffers[b]]_vars

\* C12 witness: a registration whose bytes did not parse has returned; the
\* entry stored under its name before it began is in the cache, and the other
\* name has no entry.
C12_Witness ==
  \E r, q \in RegIds :
    /\ regpc[r] = "done" /\ ~completed[r].ok
    /\ buffers[r] = "freed"
    /\ q \in completed[r].after /\ completed[q].ok
    /\ completed[q].program_name = completed[r].program_name
    /\ cached_bef_ = (completed[r].program_name :> [bef_file |-> q, bef_buffer |-> q])
    /\ files[q].state = "live" /\ buffers[q] = "live"

\* The request is at one of the first three checks of HandleRemoteExecute and
\* fails it: the program is not registered, the function is not found in the
\* program, or it declares another number of results than outputs are asked.
EarlyFailure ==
  \/ /\ pc = "idle"
     /\ Prepare(cached_bef_, request'.program_name) = NoFile
  \/ /\ pc = "get_function"
     /\ LET g == GetFunction(files, bef_file, request.program_name)
        IN \/ g = NullFn
           \/ Len(g.decl.result_types) # Len(request.outputs)

\* C13: a request that names an unregistered program, whose function is not
\* found, or whose declared result count differs from the number of outputs
\* gets done(ok = false, no metadata) in the step of HandleRemoteExecute that
\* finds it out, and the handler returns there: the function is not invoked,
\* nothing is fetched from or set in the object store, and the cache is left
\* alone, then and ever after.
C13_EarlyFailureAnswered ==
  [][/\ (pc' # pc /\ EarlyFailure) =>
          /\ pc' = "returned"
          /\ delivered' = <<[ok |-> FALSE, metadata |-> <<>>]>>
          /\ ~invoked'
          /\ arguments' = <<>>
          /\ published' = <<>>
          /\ store' = store
          /\ cached_bef_' = cached_bef_
          /\ buffers' = buffers
     /\ pc = "returned" =>
          /\ pc' = "returned"
          /\ UNCHANGED <<delivered, invoked, arguments, published>>]_vars

\* C13 witness: a request for a registered program whose function declares
\* two results has asked for one output; it is answered with ok = false, the
\* function not invoked, nothing fetched and nothing set.
C13_Witness ==
  /\ pc = "returned"
  /\ fn # NullFn
  /\ Len(fn.decl.result_types) = 2
  /\ Len(request.outputs) = 1
  /\ delivered = <<[ok |-> FALSE, metadata |-> <<>>]>>
  /\ ~invoked
  /\ arguments = <<>>
  /\ published = <<>>

\* The number of leading context arguments the function of the request
\* declares: one when its first declared argument has the context type.
ContextArgs ==
  IF /\ fn.decl.argument_types # <<>>
     /\ Head(fn.decl.argument_types) = DistContextType
    THEN 1 ELSE 0

EntryFunctions ==
  {g \in files[bef_file].functions : g.name = request.entry_function}

\* C15: the function of an execute request is looked up in its program by the
\* request's entry_function name: when the program has a function of that
\* name the request goes on with it, and when it has none the request ends
\* with done(ok = false), whatever function the program has under the name
\* program_name.
C15_LookupByEntryFunction ==
  [][(pc = "get_function" /\ pc' # pc) =>
       IF EntryFunctions = {}
         THEN /\ pc' = "returned"
              /\ delivered' = <<[ok |-> FALSE, metadata |-> <<>>]>>
         ELSE /\ fn' # NullFn
              /\ fn'.decl \in EntryFunctions]_vars

\* C16: the mutex is held only while the map is read or written.  The only
\* holder is a Register call between its two stores into the map: never a
\* call that is compiling or parsing, and never the thread of an execute
\* request, which invokes the function, waits for the results and runs done
\* with the mutex free.  With the mutex free a Prepare of any name can
\* complete, whatever call is parsing.
C16_MutexOnlyAroundMap ==
  /\ cached_bef_mutex_ \in {Free} \cup {r \in RegIds : regpc[r] = "store_buffer"}
  /\ \A r \in RegIds : regpc[r] \in {"convert", "open"} => cached_bef_mutex_ # r
  /\ cached_bef_mutex_ = Free => \A name \in Names : ENABLED CallPrepare(name)

\* C16 witness: a Prepare has returned the program of one name while a
\* Register call for the other name was parsing, and that call is parsing still.
C16_Witness ==
  \E r \in lookup.parsing :
    /\ regpc[r] = "open"
    /\ lookup.bef_file # NoFile
    /\ regreq[r].program_name # lookup.program_name

\* Some result of the invoked function is not ready yet.
SomePending == \E k \in DOMAIN results : results[k] = "pending"

\* C17: the continuation runs only after every result is ready, and at most
\* once: while a result is pending no metadata is serialized and done is not
\* invoked with ok = true, a continuation that runs goes to its end and none
\* starts after it.  HandleRemoteExecute does not wait for the results: with
\* the outputs set, RunWhenReady can return whatever state the results are in.
C17_ContinuationAfterAllReady ==
  [][/\ pc' \in {"continuation", "finished"} => ~SomePending'
     /\ SomePending' =>
          /\ response'.metadata = <<>>
          /\ \A k \in DOMAIN delivered' : ~delivered'[k].ok
     /\ pc = "continuation" => pc' \in {"continuation", "finished"}
     /\ pc = "finished" => pc' = "finished"
     /\ (pc = "publish" /\ i > Len(request.outputs)) => ENABLED RunWhenReady]_vars

\* C17 witness: the continuation has run and done has received ok = true and
\* one metadata entry, for a request with two results whose handler had
\* returned while a result was pending.
C17_Witness ==
  /\ pc = "finished"
  /\ ~inline
  /\ Len(results) = 2
  /\ delivered = <<[ok |-> TRUE, metadata |-> <<SerializeTensorMetadata(1)>>]>>

\* C18: done is invoked at most once for a request, on every path; once it
\* was invoked the handler is at its end and touches neither the request nor
\* the response, which it has given away.
C18_DoneAtMostOnce ==
  [][/\ Len(delivered') <= 1
     /\ delivered' # <<>> => (pc' \in {"returned", "finished"} /\ response'.moved)
     /\ delivered # <<>> => UNCHANGED <<delivered, request, response, pc, i>>]_vars

\* C18 witness: the continuation has invoked done with ok = false at the
\* second output, whose declared type is no tensor, and has ended there,
\* without the done of its last line.
C18_Witness ==
  /\ pc = "finished"
  /\ i = 2
  /\ fn.decl.result_types[2] = OtherType
  /\ files[fn.file].state = "live"
  /\ delivered = <<[ok |-> FALSE, metadata |-> <<>>]>>

\* C19: publication is all or nothing: once the publish step is over either
\* every output id of the request is set in the store or none is, also when
\* the device of an output cannot be resolved; a request answered ok = false
\* from the publish step has set no output.
C19_PublishAllOrNothing ==
  (invoked /\ pc # "publish") =>
    /\ Len(published) \in {0, Len(request.outputs)}
    /\ pc = "returned" => published = <<>>

\* The entry under the name holds the program and the bytes of one
\* registration: call r's file is parsed from call r's buffer.
Paired(name) == cached_bef_[name].bef_file = cached_bef_[name].bef_buffer

\* C20 as stated: in every reachable state each cache entry holds the program
\* and the bytes of the same registration.
C20_EntryPairedAlways == \A name \in DOMAIN cached_bef_ : Paired(name)

\* C20, amended: whenever the mutex is free each cache entry holds the program
\* and the bytes of the same registration, both alive.  While a Register call
\* holds the mutex between its two stores, the entry of its name, and no
\* other, holds the call's program beside the bytes stored before.
C20_EntryPairedWhenUnlocked ==
  \A name \in DOMAIN cached_bef_ :
    \/ /\ Paired(name)
       /\ files[cached_bef_[name].bef_file].state = "live"
       /\ buffers[cached_bef_[name].bef_buffer] = "live"
    \/ /\ cached_bef_mutex_ # Free
       /\ regpc[cached_bef_mutex_] = "store_buffer"
       /\ regreq[cached_bef_mutex_].program_name = name
       /\ cached_bef_[name].bef_file = cached_bef_mutex_

\* C20 witness: two registrations of one name that ran concurrently have
\* returned; the entry holds the program and the bytes of one of them, and the
\* bytes of the other are gone.
C20_Witness ==
  \E r1, r2 \in RegIds :
    /\ Concurrent(r1, r2)
    /\ completed[r1].program_name = completed[r2].program_name
    /\ cached_bef_mutex_ = Free
    /\ cached_bef_[completed[r1].program_name] = [bef_file |-> r2, bef_buffer |-> r2]
    /\ buffers[r1] = "freed"
====
